---- MODULE Spec2Model ----
(***************************************************************************)
(* A model of go-async: the future/promise layer (Exec, ExecWithDefer,     *)
(* Then, ThenWithDefer, Future.Await) and the channel pipeline stages      *)
(* (Generate, Map/OrDone, Limit, Collector, Merge, Tee, Split, Spread,     *)
(* Unroll).  Channels are unbuffered: a send and a receive happen in one   *)
(* joint step.  A goroutine is a record with a program counter.            *)
(***************************************************************************)
EXTENDS Integers, Sequences, FiniteSets, TLC

\* Number of Await calls the caller makes on the top future.
MaxAwaits == 2

\* The value the wrapped function returns (the tests' getFive).
FnVal == 5

Futs == 1..2
Awaiters == 1..MaxAwaits
Tokens == {"ctx", "actx"}
Chains == { <<"Exec">>, <<"ExecWithDefer">>,
            <<"Exec", "Then">>, <<"ExecWithDefer", "Then">>,
            <<"Exec", "ThenWithDefer">>, <<"ExecWithDefer", "ThenWithDefer">> }

VARIABLES
  user,       \* what the caller's functions return: fn's error and whether its cleanup is non-nil, the same for next
  chain,      \* the constructors applied: chain[1] makes future 1, chain[2] composes future 2 over it
  awaitTok,   \* the token the caller passes to Await ("ctx" is the one given to Exec)
  fired,      \* fired[t]: token t is done
  fut,        \* fut[f]: the Future struct (deferFn field) and what its closure captured
  gen,        \* gen[f]: the Generate goroutine behind future f
  resClosed,  \* resClosed[f]: f.result is closed
  executed,   \* executed[f]: the one-shot flag of Exec / ExecWithDefer
  hand,       \* hand[c]: the hand-off goroutines started on cleanup channel c
  dfnClosed,  \* dfnClosed[c]: cleanup channel c is closed
  fnCalls,    \* fnCalls[f]: invocations of the function wrapped by future f
  nextCalls,  \* invocations of next (Then / ThenWithDefer)
  aw,         \* aw[a]: the caller's a-th Await
  log,        \* cleanups run so far, in order: <<f, k>> is the cleanup returned by the k-th call of f's function
  panicked,   \* a goroutine panicked: the program is gone
  procs,      \* procs[p]: goroutine p of a pipeline (a stage's task, a producer, a consumer)
  closedCh,   \* the pipeline channels that are closed
  wg,         \* the sync.WaitGroup counter of Merge
  input,      \* the sequences the caller's input channels carry
  stage       \* the stage (or combination of stages) the caller built

futVars == <<user, chain, awaitTok, fut, gen, resClosed, executed, hand, dfnClosed,
             fnCalls, nextCalls, aw, log, panicked>>

pipeVars == <<procs, closedCh, wg, input, stage>>

vars == <<futVars, pipeVars, fired>>

Nil == "nil"

\* ctx.Err() of a fired token.
CtxErr(tok) == tok

Top == Len(chain)

Kind(f) == IF f <= Len(chain) THEN chain[f] ELSE "none"

\* A cleanup value: func(){} ("noop"), a cleanup returned by the user's
\* function ("fn": call k of future f's function), or the closure that
\* ThenWithDefer returns ("closure": next's cleanup <<f, k>> or nil when
\* k = 0, and the captured deferFn channel outer, 0 when nil).
Cleanup(type, f, k, outer) == [type |-> type, f |-> f, k |-> k, outer |-> outer]

NoCleanup == Cleanup("nilfunc", 0, 0, 0)

\* The Future struct a constructor returns.  deferFn = 0 is a nil channel;
\* captured is the deferFn variable the ThenWithDefer closure closes over.
Future(deferFn, captured) == [deferFn |-> deferFn, captured |-> captured]

Exec == Future(0, 0)

ExecWithDefer(f) == Future(f, 0)

\* Then: deferFn := first.deferFn; future := Exec(...);
\* if deferFn != nil { future.deferFn = deferFn }
Then(first) == Future(first.deferFn, 0)

\* ThenWithDefer: deferFn := first.deferFn; future := ExecWithDefer(...);
\* if deferFn != nil { future.deferFn = deferFn }
ThenWithDefer(f, first) ==
  IF first.deferFn # 0
    THEN Future(first.deferFn, first.deferFn)
    ELSE [ExecWithDefer(f) EXCEPT !.captured = first.deferFn]

\* The futures as they stand once the chain ch is constructed.
Construct(ch) ==
  LET f1 == IF ch[1] = "Exec" THEN Exec ELSE ExecWithDefer(1)
  IN IF Len(ch) = 1
       THEN (1 :> f1) @@ (2 :> Future(0, 0))
       ELSE \* Then and ThenWithDefer both set first.deferFn = nil
            (1 :> [f1 EXCEPT !.deferFn = 0]) @@
            (2 :> IF ch[2] = "Then" THEN Then(f1) ELSE ThenWithDefer(2, f1))

GenIdle == [pc |-> "none", val |-> 0, err |-> Nil, t |-> 0]

AwIdle == [pc |-> "idle", val |-> 0, err |-> Nil, fn |-> NoCleanup, how |-> "none"]

\* The caller's functions: fn returns (cleanup, FnVal, fnErr), next returns
\* (cleanup, NextFn(t), nextErr); a function without cleanup has none to return.
Users(ch) ==
  { u \in [fnErr : {Nil, "EOF"}, fnCl : BOOLEAN, nextErr : {Nil, "ENEXT"}, nextCl : BOOLEAN] :
      /\ (ch[1] = "Exec") => ~u.fnCl
      /\ (Len(ch) = 1 \/ ch[Len(ch)] = "Then") => ~u.nextCl
      /\ (Len(ch) = 1) => u.nextErr = Nil }

FutInit ==
  /\ chain \in Chains
  /\ user \in Users(chain)
  /\ awaitTok \in Tokens
  /\ fired = [t \in Tokens |-> FALSE]
  /\ fut = Construct(chain)
  /\ gen = [f \in Futs |-> IF f <= Len(chain) THEN [GenIdle EXCEPT !.pc = "call"] ELSE GenIdle]
  /\ resClosed = [f \in Futs |-> FALSE]
  /\ executed = [f \in Futs |-> FALSE]
  /\ hand = [c \in Futs |-> << >>]
  /\ dfnClosed = [c \in Futs |-> FALSE]
  /\ fnCalls = [f \in Futs |-> 0]
  /\ nextCalls = 0
  /\ aw = [a \in Awaiters |-> AwIdle]
  /\ log = << >>
  /\ panicked = FALSE
  /\ procs = << >>
  /\ closedCh = {}
  /\ wg = 0
  /\ input = << >>
  /\ stage = "Future"

\* The token fires (cancel is called or the deadline passes).
Fire(tok) ==
  /\ ~panicked
  /\ ~fired[tok]
  /\ fired' = [fired EXCEPT ![tok] = TRUE]
  /\ UNCHANGED <<futVars, pipeVars>>

(***************************************************************************)
(* The Generate goroutine behind a future: for { v, ok := next(ctx);       *)
(* if !ok { return }; select { <-ctx.Done(): return; out <- v } }          *)
(***************************************************************************)

\* The hand-off goroutine ExecWithDefer starts once fn has returned.
Handoff(fn) == [fn |-> fn, pc |-> "send"]

\* next(ctx) is called.  Exec / ExecWithDefer: if ok = !executed; ok { fn(ctx) }.
\* Nothing assigns executed.  For a composed future the function is the
\* wrapper of Then / ThenWithDefer, which starts with first.Await(ctx).
GenCall(f) ==
  /\ ~panicked
  /\ gen[f].pc = "call"
  /\ IF executed[f]
       THEN /\ gen' = [gen EXCEPT ![f].pc = "done"]
            /\ resClosed' = [resClosed EXCEPT ![f] = TRUE]
            /\ UNCHANGED fnCalls
       ELSE /\ gen' = [gen EXCEPT ![f].pc =
                        IF Kind(f) \in {"Exec", "ExecWithDefer"} THEN "fn" ELSE "await"]
            /\ fnCalls' = [fnCalls EXCEPT ![f] = @ + 1]
            /\ UNCHANGED resClosed
  /\ UNCHANGED <<pipeVars, user, chain, awaitTok, fut, executed, hand, dfnClosed, nextCalls, aw,
                 log, panicked, fired>>

\* The user's function returns (cleanup, value, error); ExecWithDefer then
\* starts the hand-off goroutine, sending func(){} for a nil cleanup.
FnReturn(f) ==
  /\ ~panicked
  /\ gen[f].pc = "fn"
  /\ LET err == user.fnErr
         cl == user.fnCl IN
       /\ gen' = [gen EXCEPT ![f] = [pc |-> "select", val |-> FnVal, err |-> err, t |-> 0]]
       /\ hand' = IF Kind(f) = "ExecWithDefer"
                    THEN [hand EXCEPT ![f] = Append(@, Handoff(
                            IF cl THEN Cleanup("fn", f, fnCalls[f], 0)
                                  ELSE Cleanup("noop", 0, 0, 0)))]
                    ELSE hand
  /\ UNCHANGED <<pipeVars, user, chain, awaitTok, fut, resClosed, executed, dfnClosed, fnCalls,
                 nextCalls, aw, log, panicked, fired>>

\* The wrapper of Then / ThenWithDefer after t, err := first.Await(ctx):
\* with an error it returns at once (ThenWithDefer: with its closure, whose
\* inner dfn is nil), otherwise it goes on to call next.
AfterFirst(f, t, err) ==
  IF err = Nil
    THEN [pc |-> "next", val |-> 0, err |-> Nil, t |-> t]
    ELSE [pc |-> "select", val |-> 0, err |-> err, t |-> t]

HandAfterFirst(f, err) ==
  IF err # Nil /\ Kind(f) = "ThenWithDefer"
    THEN [hand EXCEPT ![f] = Append(@, Handoff(Cleanup("closure", 0, 0, fut[f].captured)))]
    ELSE hand

\* first.Await(ctx) inside the wrapper: the token is done.
InnerAwaitDone(f) ==
  /\ ~panicked
  /\ gen[f].pc = "await"
  /\ fired["ctx"]
  /\ gen' = [gen EXCEPT ![f] = AfterFirst(f, 0, CtxErr("ctx"))]
  /\ hand' = HandAfterFirst(f, CtxErr("ctx"))
  /\ UNCHANGED <<pipeVars, user, chain, awaitTok, fut, resClosed, executed, dfnClosed, fnCalls,
                 nextCalls, aw, log, panicked, fired>>

\* first.Await(ctx) inside the wrapper: first.result is closed, the receive
\* yields the zero futureResult.
InnerAwaitRecvClosed(f) ==
  /\ ~panicked
  /\ gen[f].pc = "await"
  /\ resClosed[f - 1]
  /\ gen' = [gen EXCEPT ![f] = AfterFirst(f, 0, Nil)]
  /\ hand' = HandAfterFirst(f, Nil)
  /\ UNCHANGED <<pipeVars, user, chain, awaitTok, fut, resClosed, executed, dfnClosed, fnCalls,
                 nextCalls, aw, log, panicked, fired>>

\* next(ctx, t) of the tests: i * 2.
NextFn(t) == t * 2

\* next returns; the wrapper returns its result (ThenWithDefer: with the
\* closure over next's cleanup and the captured deferFn).
NextReturn(f) ==
  /\ ~panicked
  /\ gen[f].pc = "next"
  /\ nextCalls' = nextCalls + 1
  /\ LET err == user.nextErr
         cl == user.nextCl IN
       /\ gen' = [gen EXCEPT ![f] = [pc |-> "select", val |-> NextFn(gen[f].t),
                                     err |-> err, t |-> gen[f].t]]
       /\ hand' = IF Kind(f) = "ThenWithDefer"
                    THEN [hand EXCEPT ![f] = Append(@, Handoff(
                            Cleanup("closure", IF cl THEN f ELSE 0,
                                    IF cl THEN nextCalls' ELSE 0, fut[f].captured)))]
                    ELSE hand
  /\ UNCHANGED <<pipeVars, user, chain, awaitTok, fut, resClosed, executed, dfnClosed, fnCalls,
                 aw, log, panicked, fired>>

\* select { case <-ctx.Done(): return }, then the deferred close(c).
GenCtxDone(f) ==
  /\ ~panicked
  /\ gen[f].pc = "select"
  /\ fired["ctx"]
  /\ gen' = [gen EXCEPT ![f].pc = "done"]
  /\ resClosed' = [resClosed EXCEPT ![f] = TRUE]
  /\ UNCHANGED <<pipeVars, user, chain, awaitTok, fut, executed, hand, dfnClosed, fnCalls,
                 nextCalls, aw, log, panicked, fired>>

(***************************************************************************)
(* Future.Await: select { <-ctx.Done(): err = ctx.Err();                   *)
(* result := <-f.result: v, err = result.Val, result.Err }, then the       *)
(* deferred func: if f.deferFn != nil { fn := <-f.deferFn; fn() }.         *)
(***************************************************************************)

\* Await that waits for a cleanup even when the future has no cleanup channel.
AfterSelectAlwaysWaits(a, v, err, how) ==
  [aw[a] EXCEPT !.val = v, !.err = err, !.how = how, !.pc = "defer"]

\* Await after its select: with a nil deferFn it returns, otherwise it
\* goes on to receive the cleanup.
AfterSelect(a, v, err, how) ==
  [aw[a] EXCEPT !.val = v, !.err = err, !.how = how,
                !.pc = IF fut[Top].deferFn = 0 THEN "done" ELSE "defer"]

AwaitCall(a) ==
  /\ ~panicked
  /\ aw[a].pc = "idle"
  /\ \A b \in Awaiters : b < a => aw[b].pc # "idle"
  /\ aw' = [aw EXCEPT ![a].pc = "select"]
  /\ UNCHANGED <<pipeVars, user, chain, awaitTok, fut, gen, resClosed, executed, hand, dfnClosed,
                 fnCalls, nextCalls, log, panicked, fired>>

AwaitCtxDone(a) ==
  /\ ~panicked
  /\ aw[a].pc = "select"
  /\ fired[awaitTok]
  /\ aw' = [aw EXCEPT ![a] = AfterSelect(a, 0, CtxErr(awaitTok), "ctx")]
  /\ UNCHANGED <<pipeVars, user, chain, awaitTok, fut, gen, resClosed, executed, hand, dfnClosed,
                 fnCalls, nextCalls, log, panicked, fired>>

\* The receive on a closed f.result yields the zero futureResult.
AwaitRecvClosed(a) ==
  /\ ~panicked
  /\ aw[a].pc = "select"
  /\ resClosed[Top]
  /\ aw' = [aw EXCEPT ![a] = AfterSelect(a, 0, Nil, "closed")]
  /\ UNCHANGED <<pipeVars, user, chain, awaitTok, fut, gen, resClosed, executed, hand, dfnClosed,
                 fnCalls, nextCalls, log, panicked, fired>>

\* out <- v of Generate meets a receive on f.result: an Await of the caller
\* (the top future) or first.Await inside the wrapper of the next future.
GenSend(f) ==
  /\ ~panicked
  /\ gen[f].pc = "select"
  /\ IF f = Top
       THEN /\ \E a \in Awaiters :
                 /\ aw[a].pc = "select"
                 /\ aw' = [aw EXCEPT ![a] = AfterSelect(a, gen[f].val, gen[f].err, "result")]
            /\ gen' = [gen EXCEPT ![f].pc = "call"]
            /\ hand' = hand
       ELSE /\ gen[f + 1].pc = "await"
            /\ gen' = [gen EXCEPT ![f].pc = "call",
                                  ![f + 1] = AfterFirst(f + 1, gen[f].val, gen[f].err)]
            /\ hand' = HandAfterFirst(f + 1, gen[f].err)
            /\ aw' = aw
  /\ UNCHANGED <<pipeVars, user, chain, awaitTok, fut, resClosed, executed, dfnClosed, fnCalls,
                 nextCalls, log, panicked, fired>>

\* The receives a cleanup channel c can meet: the deferred func of Await
\* (fn := <-f.deferFn), or the closure of ThenWithDefer (dfn = <-deferFn).
WaitsOn(a, c) ==
  \/ aw[a].pc = "defer" /\ fut[Top].deferFn = c
  \/ aw[a].pc = "defer2" /\ aw[a].fn.outer = c

\* out <- fn (or out <- func(){}) of the hand-off goroutine meets a receive.
HandSend(c, i) ==
  /\ ~panicked
  /\ hand[c][i].pc = "send"
  /\ ~dfnClosed[c]
  /\ \E a \in Awaiters :
       /\ WaitsOn(a, c)
       /\ aw' = [aw EXCEPT ![a].pc = "cleanup", ![a].fn = hand[c][i].fn]
  /\ hand' = [hand EXCEPT ![c][i].pc = "close"]
  /\ UNCHANGED <<pipeVars, user, chain, awaitTok, fut, gen, resClosed, executed, dfnClosed,
                 fnCalls, nextCalls, log, panicked, fired>>

\* A send on a closed channel panics (also when the sender was already
\* blocked in the send when the channel got closed).
HandSendClosed(c, i) ==
  /\ ~panicked
  /\ hand[c][i].pc = "send"
  /\ dfnClosed[c]
  /\ panicked' = TRUE
  /\ UNCHANGED <<pipeVars, user, chain, awaitTok, fut, gen, resClosed, executed, hand, dfnClosed,
                 fnCalls, nextCalls, aw, log, fired>>

\* defer close(out); closing a closed channel panics.
HandClose(c, i) ==
  /\ ~panicked
  /\ hand[c][i].pc = "close"
  /\ hand' = [hand EXCEPT ![c][i].pc = "done"]
  /\ dfnClosed' = [dfnClosed EXCEPT ![c] = TRUE]
  /\ panicked' = dfnClosed[c]
  /\ UNCHANGED <<pipeVars, user, chain, awaitTok, fut, gen, resClosed, executed, fnCalls,
                 nextCalls, aw, log, fired>>

\* A receive on the closed cleanup channel yields a nil func; calling it panics.
AwaitDeferRecvClosed(a) ==
  /\ ~panicked
  /\ \E c \in Futs : WaitsOn(a, c) /\ dfnClosed[c]
  /\ aw' = [aw EXCEPT ![a].fn = NoCleanup]
  /\ panicked' = TRUE
  /\ UNCHANGED <<pipeVars, user, chain, awaitTok, fut, gen, resClosed, executed, hand, dfnClosed,
                 fnCalls, nextCalls, log, fired>>

\* fn(): the cleanup received is run.  The closure of ThenWithDefer runs
\* next's cleanup if not nil and then, if the captured deferFn is not nil,
\* receives from it and runs what it gets.
RunCleanup(a) ==
  /\ ~panicked
  /\ aw[a].pc = "cleanup"
  /\ log' = IF aw[a].fn.k # 0 THEN Append(log, <<aw[a].fn.f, aw[a].fn.k>>) ELSE log
  /\ aw' = [aw EXCEPT ![a].pc = IF aw[a].fn.type = "closure" /\ aw[a].fn.outer # 0
                                  THEN "defer2" ELSE "done"]
  /\ UNCHANGED <<pipeVars, user, chain, awaitTok, fut, gen, resClosed, executed, hand, dfnClosed,
                 fnCalls, nextCalls, panicked, fired>>

FutNext ==
  \/ \E tok \in {"ctx", awaitTok} : Fire(tok)
  \/ \E f \in Futs : GenCall(f)
  \/ \E f \in Futs : FnReturn(f)
  \/ \E f \in Futs : InnerAwaitDone(f)
  \/ \E f \in Futs : InnerAwaitRecvClosed(f)
  \/ \E f \in Futs : NextReturn(f)
  \/ \E f \in Futs : GenCtxDone(f)
  \/ \E f \in Futs : GenSend(f)
  \/ \E a \in Awaiters : AwaitCall(a)
  \/ \E a \in Awaiters : AwaitCtxDone(a)
  \/ \E a \in Awaiters : AwaitRecvClosed(a)
  \/ \E c \in Futs : \E i \in DOMAIN hand[c] : HandSend(c, i)
  \/ \E c \in Futs : \E i \in DOMAIN hand[c] : HandSendClosed(c, i)
  \/ \E c \in Futs : \E i \in DOMAIN hand[c] : HandClose(c, i)
  \/ \E a \in Awaiters : AwaitDeferRecvClosed(a)
  \/ \E a \in Awaiters : RunCleanup(a)

FutSpec == FutInit /\ [][FutNext]_vars

(***************************************************************************)
(* Claims about futures.                                                   *)
(***************************************************************************)

\* Only the first Await has been called.
SingleAwait == \A a \in Awaiters : a # 1 => aw[a].pc = "idle"

\* The function wrapped by the top future is in its first invocation and
\* has not returned.
FirstCallRunning == fnCalls[Top] = 1 /\ gen[Top].pc \in {"fn", "await", "next"}

\* The (value, error) pairs the function wrapped by future f can return.
ResultsOf(f) ==
  IF Kind(f) \in {"Exec", "ExecWithDefer"}
    THEN { <<FnVal, user.fnErr>> }
    ELSE { <<NextFn(FnVal), user.nextErr>>, <<NextFn(0), user.nextErr>>,
           <<0, CtxErr("ctx")>> } \cup
         (IF user.fnErr # Nil THEN { <<0, user.fnErr>> } ELSE {})

\* C1: the function wrapped by a future made by Exec or ExecWithDefer is
\* invoked at most once, whatever number of Awaits and whenever the token fires.
C1_FnAtMostOnce ==
  \A f \in Futs : Kind(f) \in {"Exec", "ExecWithDefer"} => fnCalls[f] <= 1

\* C2: for a future made by ExecWithDefer and awaited once, no cleanup runs
\* before Await has left its select, and when Await has returned the cleanup
\* that fn returned (with the result) has run exactly once and nothing else has.
C2_CleanupExactlyOnce ==
  (chain = <<"ExecWithDefer">> /\ user.fnCl /\ SingleAwait) =>
     /\ aw[1].pc \in {"idle", "select", "defer"} => log = << >>
     /\ aw[1].pc = "done" => log = << <<1, 1>> >>

\* C3: ThenWithDefer over a first made by ExecWithDefer, both functions
\* succeeding with a cleanup: after the single Await has returned the result,
\* a cleanup of next has run and then a cleanup of first, and nothing else.
C3_CleanupOrder ==
  ( /\ chain = <<"ExecWithDefer", "ThenWithDefer">>
    /\ user.fnErr = Nil /\ user.nextErr = Nil /\ user.fnCl /\ user.nextCl
    /\ SingleAwait
    /\ aw[1].pc = "done" /\ aw[1].how = "result"
    /\ aw[1].val = NextFn(FnVal) /\ aw[1].err = Nil ) =>
     \E j, k \in 1..(MaxAwaits + 2) : log = << <<2, j>>, <<1, k>> >>

\* What Await yields on each branch of its select.
AwaitYields(a) ==
  /\ aw[a].how = "ctx" => aw[a].val = 0 /\ aw[a].err = CtxErr(awaitTok)
  /\ aw[a].how = "result" => <<aw[a].val, aw[a].err>> \in ResultsOf(Top)

FutOff ==
  /\ chain = << >>
  /\ user = [fnErr |-> Nil, fnCl |-> FALSE, nextErr |-> Nil, nextCl |-> FALSE]
  /\ awaitTok = "ctx"
  /\ fut = << >>
  /\ gen = << >>
  /\ resClosed = << >>
  /\ executed = << >>
  /\ hand = << >>
  /\ dfnClosed = << >>
  /\ fnCalls = << >>
  /\ nextCalls = 0
  /\ aw = << >>
  /\ log = << >>
  /\ panicked = FALSE

ProcIds == 1..12

\* A goroutine: its kind, where it is, its channels, the value in hand (v),
\* Tee's per-round copies of out1 / out2 (o1, o2: FALSE is nil), a count
\* limit or batch size (n), a counter (i), items collected or left to send
\* (buf, items), whether a producer goes on for ever (inf), the function
\* applied (fn), and for a consumer what it received (got, if it keeps it).
\* Accumulate keeps out in v, counts the calls of fn in i, has its err,
\* Range keeps its from, to and step (its caller the optStep in buf),
\* got lists the items fn was called on, and seen notes whether the token had fired when its loop ended.
Proc(kind, pc, in, out) ==
  [kind |-> kind, pc |-> pc, in |-> in, out |-> out, out2 |-> 0, ctx |-> "ctx",
   v |-> 0, o1 |-> TRUE, o2 |-> TRUE, n |-> 0, i |-> 0, buf |-> << >>,
   items |-> << >>, inf |-> FALSE, fn |-> "id", got |-> << >>, keep |-> TRUE,
   err |-> Nil, seen |-> FALSE, from |-> 0, to |-> 0, step |-> 0]

\* The nil channel: a receive from it never completes, it is never closed.
NilChan == 0

\* A caller-supplied channel and the goroutine feeding it: it sends its
\* items and closes, or sends for ever; it does not look at the token.
Src(out, items, inf) ==
  [Proc("Src", "send", 0, out) EXCEPT !.items = items, !.inf = inf]

\* for v := range in { ... } of a consumer.
Sink(in, keep) == [Proc("Sink", "recv", in, 0) EXCEPT !.keep = keep]

\* The consumers of the cancel tests: for val := range limit { result =
\* append(result, val); if len(result) >= k { cancel() } } and for v :=
\* range g { if arr = append(arr, v); len(arr) == k { cancel() } }.
CancelSink(in, when, k) == [Sink(in, TRUE) EXCEPT !.fn = when, !.n = k]

Cancels(when, len, k) == (when = "ge" /\ len >= k) \/ (when = "eq" /\ len = k)

\* The body of the consumer's loop for the item v.
SinkOnRecv(r, v) ==
  LET got == IF r.keep THEN Append(r.got, v) ELSE r.got
  IN [r EXCEPT !.got = got,
               !.pc = IF Cancels(r.fn, Len(got), r.n) THEN "cancel" ELSE "recv"]

GenerateProc(out, items, inf) ==
  [Proc("Generate", "next", 0, out) EXCEPT !.items = items, !.inf = inf]

MapProc(in, out, fn) == [Proc("Map", "recv", in, out) EXCEPT !.fn = fn]

OrDone(in, out) == MapProc(in, out, "id")

LimitProc(in, out, n) == [Proc("Limit", "recv", in, out) EXCEPT !.n = n]

CollectorProc(in, out, k) == [Proc("Collector", "recv", in, out) EXCEPT !.n = k]

\* The predicates of the tests: func(_ int) bool { return true } and
\* isEven := func(a int) bool { return a%2 == 0 }.
Holds(pred, v) == pred = "all" \/ v % 2 = 0

\* Filter is Collector(ctx, collect, input) with collect returning the
\* next item of in that satisfies the predicate.
FilterProc(in, out, pred) == [Proc("Collector", "recv", in, out) EXCEPT !.fn = pred]

\* A collect that hands on the items the predicate rejects.
FilterOnRecvNegated(r, v) ==
  IF ~Holds(r.fn, v) THEN [r EXCEPT !.pc = "send", !.v = v] ELSE r

\* Filter's collect: for v := range in { if filter(v) { return v, true } }
FilterOnRecv(r, v) ==
  IF Holds(r.fn, v) THEN [r EXCEPT !.pc = "send", !.v = v] ELSE r

\* The batch rule of the tests (sliceCollector): r = append(r, v) until r
\* has n items, then return r, len(r) > 0.
BatchOnRecv(r, v) ==
  IF Len(r.buf) + 1 = r.n
    THEN [r EXCEPT !.pc = "send", !.v = Append(r.buf, v), !.buf = << >>]
    ELSE [r EXCEPT !.buf = Append(r.buf, v)]

Relay(in, out) == Proc("Relay", "recv", in, out)

Closer(out) == Proc("Closer", "wait", 0, out)

TeeProc(in, out1, out2) == [Proc("Tee", "recv", in, out1) EXCEPT !.out2 = out2]

UnrollProc(in, out) == Proc("Unroll", "recv", in, out)

\* The fold functions of the tests.  "sum": if val > 0 { return sum + val,
\* nil }; return sum - val, nil.  "mulStop": if v > FailAbove { return 0,
\* io.ErrClosedPipe }; return v * t, nil.
FailAbove == 1

ErrClosedPipe == "ErrClosedPipe"

Fold(fn, acc, t) ==
  IF fn = "sum"
    THEN [v |-> IF t > 0 THEN acc + t ELSE acc - t, err |-> Nil]
    ELSE IF acc > FailAbove
      THEN [v |-> 0, err |-> ErrClosedPipe]
      ELSE [v |-> acc * t, err |-> Nil]

\* initVal of the two tests.
InitVal(fn) == IF fn = "sum" THEN 0 ELSE 1

\* Accumulate runs in its caller: out = initVal; for v := range OrDone(ctx, input)
AccumulateProc(in, fn) ==
  [Proc("Accumulate", "recv", in, 0) EXCEPT !.fn = fn, !.v = InitVal(fn)]

\* An Accumulate that goes on with its loop after fn failed.
AccumulateOnRecvGoesOn(r, v) ==
  LET f == Fold(r.fn, r.v, v)
  IN [r EXCEPT !.v = f.v, !.err = f.err, !.i = @ + 1, !.got = Append(@, v)]

\* Accumulate: if out, err = fn(out, v); err != nil { return out, err }
AccumulateOnRecv(r, v) ==
  LET f == Fold(r.fn, r.v, v)
  IN [r EXCEPT !.v = f.v, !.err = f.err, !.i = @ + 1, !.got = Append(@, v),
               !.pc = IF f.err # Nil THEN "done" ELSE "recv"]

\* A Map that does not apply its function.
ApplyNothing(fn, v) == v

\* The least and the greatest int8, the narrowest Rangeable type.
IntMin == -128

IntMax == 127

\* x as the int8 that Go's wrapping arithmetic makes of it.
Wrap(x) == ((x - IntMin) % (IntMax - IntMin + 1)) + IntMin

\* Calls of a stepping function of Range the model follows.
MaxRangeCalls == 260

\* Range's stepping functions: i := from; from += step; return i, i < to
\* (ascending) or return i, i > to (descending).
RangeNextFn(r) ==
  LET i == r.from
  IN [r EXCEPT !.from = Wrap(i + r.step), !.v = i, !.i = @ + 1,
               !.pc = IF (r.fn = "up" /\ i < r.to) \/ (r.fn = "down" /\ i > r.to)
                        THEN "select" ELSE "done"]

\* var step T = 1; if from > to { step = -step };
\* if len(optStep) > 0 { step = optStep[0] }
StepOf(from, to, optStep) ==
  IF Len(optStep) > 0 THEN optStep[1] ELSE IF from > to THEN Wrap(0 - 1) ELSE 1

\* A Range that lets a zero step pass.
BadStepButZero(from, to, step) ==
  \/ from < to /\ step < 0
  \/ from > to /\ step > 0

\* case from < to: if step <= 0 { panic }; case from > to: if step >= 0 { panic }
BadStep(from, to, step) ==
  \/ from < to /\ step <= 0
  \/ from > to /\ step >= 0

\* The call Range(ctx, from, to, optStep...), not made yet.
RangeProc(from, to, optStep) ==
  [Proc("Range", "call", 0, 0) EXCEPT !.from = from, !.to = to, !.buf = optStep]

\* The Generate goroutine Range starts over its stepping function.
RangeGenerate(out, from, to, step) ==
  [Proc("Generate", "next", 0, out) EXCEPT
     !.fn = IF from < to THEN "up" ELSE "down", !.from = from, !.to = to, !.step = step]

\* mapFn: the identity of OrDone, or a doubling.
Apply(fn, v) == IF fn = "double" THEN 2 * v ELSE v

\* The channels a goroutine closes when it returns.
Owned(r) ==
  CASE r.kind \in {"Src", "Generate", "Map", "Limit", "Collector", "Closer", "Unroll"} -> {r.out}
    [] r.kind = "Tee" -> {r.out, r.out2}
    [] OTHER -> {}

Closes(r) == IF r.pc = "done" THEN Owned(r) ELSE {}

\* v, ok := <-in with ok: what the receiving goroutine does with v.
OnRecv(r, v) ==
  CASE r.kind = "Map" -> [r EXCEPT !.pc = "send", !.v = Apply(r.fn, v)]
    [] r.kind = "Limit" -> [r EXCEPT !.pc = "send", !.v = v]
    [] r.kind = "Relay" -> [r EXCEPT !.pc = "send", !.v = v]
    [] r.kind = "Collector" ->
         IF r.fn = "id" THEN BatchOnRecv(r, v) ELSE FilterOnRecv(r, v)
    [] r.kind = "Tee" -> [r EXCEPT !.pc = "sel1", !.v = v, !.o1 = TRUE, !.o2 = TRUE]
    [] r.kind = "Unroll" ->
         IF Len(v) = 0 THEN r ELSE [r EXCEPT !.pc = "send", !.buf = v]
    [] r.kind = "Sink" -> SinkOnRecv(r, v)
    [] r.kind = "Accumulate" -> AccumulateOnRecv(r, v)

\* A batch rule that drops its partial batch at the end of the input.
OnClosedDropsPartial(r) == [r EXCEPT !.pc = "done"]

\* The receive on a closed channel (ok false, or the end of a range loop).
OnClosed(r) ==
  IF r.kind = "Collector" /\ Len(r.buf) > 0
    THEN \* the batch rule returns the partial batch: arr, len(arr) > 0
         [r EXCEPT !.pc = "send", !.v = r.buf, !.buf = << >>]
    ELSE [r EXCEPT !.pc = "done"]

IsProc(p, kind, pc) ==
  /\ p \in DOMAIN procs
  /\ procs[p].kind = kind
  /\ procs[p].pc = pc

TokenDone(p) == fired[procs[p].ctx]

\* Goroutine p goes on alone to new.
Alone(p, new) ==
  /\ procs' = [procs EXCEPT ![p] = new]
  /\ closedCh' = closedCh \cup Closes(new)

\* The send of v on channel c by p (which becomes new) meets a receive.
Deliver(p, new, c, v) ==
  /\ c \notin closedCh
  /\ \E r \in DOMAIN procs :
       /\ r # p
       /\ procs[r].pc = "recv"
       /\ procs[r].in = c
       /\ procs' = [procs EXCEPT ![p] = new, ![r] = OnRecv(procs[r], v)]
  /\ closedCh' = closedCh \cup Closes(new)

\* Goroutine p receives on its closed input.
InClosed(p) ==
  /\ procs[p].in \in closedCh
  /\ Alone(p, OnClosed(procs[p]))

----
\* A producer behind a caller-supplied channel.
SrcSend(p) ==
  /\ IsProc(p, "Src", "send")
  /\ Len(procs[p].items) > 0
  /\ Deliver(p, [procs[p] EXCEPT !.items = IF procs[p].inf THEN @ ELSE Tail(@)],
             procs[p].out, Head(procs[p].items))
  /\ UNCHANGED <<futVars, wg, input, stage, fired>>

SrcClose(p) ==
  /\ IsProc(p, "Src", "send")
  /\ Len(procs[p].items) = 0
  /\ Alone(p, [procs[p] EXCEPT !.pc = "done"])
  /\ UNCHANGED <<futVars, wg, input, stage, fired>>

\* A consumer: for v := range in.
SinkClosed(p) ==
  /\ IsProc(p, "Sink", "recv")
  /\ InClosed(p)
  /\ UNCHANGED <<futVars, wg, input, stage, fired>>

\* A consumer that stops receiving.
SinkStop(p) ==
  /\ IsProc(p, "Sink", "recv")
  /\ Alone(p, [procs[p] EXCEPT !.pc = "stopped"])
  /\ UNCHANGED <<futVars, wg, input, stage, fired>>

\* A consumer calls cancel() and goes on with its loop.
SinkCancel(p) ==
  /\ IsProc(p, "Sink", "cancel")
  /\ fired' = [fired EXCEPT ![procs[p].ctx] = TRUE]
  /\ Alone(p, [procs[p] EXCEPT !.pc = "recv"])
  /\ UNCHANGED <<futVars, wg, input, stage>>

----
\* Generate: v, ok := next(ctx); if !ok { return }.  The stepping function
\* is ToChan's (if ok = i < len(values); ok { v = values[i] }; i++), or one
\* that goes on for ever.
\* Range is called: it panics, or returns the channel of ToChan(ctx, from)
\* (default:) or of Generate(ctx, next); a consumer takes the channel.
RangeCall(p) ==
  /\ IsProc(p, "Range", "call")
  /\ LET r == procs[p]
         step == StepOf(r.from, r.to, r.buf)
     IN procs' =
          IF BadStep(r.from, r.to, step)
            THEN << [r EXCEPT !.pc = "panic"] >>
            ELSE << [r EXCEPT !.pc = "returned", !.out = 1],
                    IF r.from = r.to
                      THEN GenerateProc(1, << r.from >>, FALSE)
                      ELSE RangeGenerate(1, r.from, r.to, step),
                    Sink(1, TRUE) >>
  /\ UNCHANGED <<futVars, closedCh, wg, input, stage, fired>>

\* Range's stepping functions count in from; the calls of one that never
\* returns false are cut off at MaxRangeCalls.
GenerateNext(p) ==
  /\ IsProc(p, "Generate", "next")
  /\ procs[p].fn \in {"up", "down"} => procs[p].i < MaxRangeCalls
  /\ Alone(p, IF procs[p].fn \in {"up", "down"}
                THEN RangeNextFn(procs[p])
              ELSE IF procs[p].inf
                THEN [procs[p] EXCEPT !.pc = "select", !.v = procs[p].items[1]]
                ELSE IF procs[p].i < Len(procs[p].items)
                  THEN [procs[p] EXCEPT !.pc = "select", !.i = @ + 1,
                                        !.v = procs[p].items[procs[p].i + 1]]
                  ELSE [procs[p] EXCEPT !.pc = "done", !.i = @ + 1])
  /\ UNCHANGED <<futVars, wg, input, stage, fired>>

\* A Generate that returns after its first send.
GenerateSendOnce(p) ==
  /\ IsProc(p, "Generate", "select")
  /\ Deliver(p, [procs[p] EXCEPT !.pc = "done"], procs[p].out, procs[p].v)
  /\ UNCHANGED <<futVars, wg, input, stage, fired>>

\* Generate: select { case out <- v: }
GenerateSend(p) ==
  /\ IsProc(p, "Generate", "select")
  /\ Deliver(p, [procs[p] EXCEPT !.pc = "next"], procs[p].out, procs[p].v)
  /\ UNCHANGED <<futVars, wg, input, stage, fired>>

\* Generate: select { case <-ctx.Done(): return }
GenerateDone(p) ==
  /\ IsProc(p, "Generate", "select")
  /\ TokenDone(p)
  /\ Alone(p, [procs[p] EXCEPT !.pc = "done"])
  /\ UNCHANGED <<futVars, wg, input, stage, fired>>

----
\* A Map whose outer select has no <-ctx.Done() case.
MapDoneMissing(p) == FALSE /\ UNCHANGED vars

\* Map: the outer select { case <-ctx.Done(): return }
MapDone(p) ==
  /\ IsProc(p, "Map", "recv")
  /\ TokenDone(p)
  /\ Alone(p, [procs[p] EXCEPT !.pc = "done"])
  /\ UNCHANGED <<futVars, wg, input, stage, fired>>

\* Map: case v, ok := <-in: if !ok { return }
MapInClosed(p) ==
  /\ IsProc(p, "Map", "recv")
  /\ InClosed(p)
  /\ UNCHANGED <<futVars, wg, input, stage, fired>>

\* A Map that, having sent, sends the same value again.
MapSendAgain(p) ==
  /\ IsProc(p, "Map", "send")
  /\ Deliver(p, procs[p], procs[p].out, procs[p].v)
  /\ UNCHANGED <<futVars, wg, input, stage, fired>>

\* Map: the inner select { case out <- fn(v): }
MapSend(p) ==
  /\ IsProc(p, "Map", "send")
  /\ Deliver(p, [procs[p] EXCEPT !.pc = "recv"], procs[p].out, procs[p].v)
  /\ UNCHANGED <<futVars, wg, input, stage, fired>>

\* Map: the inner select { case <-ctx.Done(): }, an empty case: the value
\* is dropped and the loop goes round to the outer select.
MapSkip(p) ==
  /\ IsProc(p, "Map", "send")
  /\ TokenDone(p)
  /\ Alone(p, [procs[p] EXCEPT !.pc = "recv"])
  /\ UNCHANGED <<futVars, wg, input, stage, fired>>

----
\* Limit: for v := range in, the input (an OrDone) is closed.
LimitInClosed(p) ==
  /\ IsProc(p, "Limit", "recv")
  /\ InClosed(p)
  /\ UNCHANGED <<futVars, wg, input, stage, fired>>

\* A Limit that returns when i > n.
LimitSendOneMore(p) ==
  /\ IsProc(p, "Limit", "send")
  /\ Deliver(p, [procs[p] EXCEPT !.i = @ + 1,
                                 !.pc = IF procs[p].i + 1 > procs[p].n THEN "done" ELSE "recv"],
             procs[p].out, procs[p].v)
  /\ UNCHANGED <<futVars, wg, input, stage, fired>>

\* Limit: select { case out <- v: i++ }; if i >= n { return }
LimitSend(p) ==
  /\ IsProc(p, "Limit", "send")
  /\ Deliver(p, [procs[p] EXCEPT !.i = @ + 1,
                                 !.pc = IF procs[p].i + 1 >= procs[p].n THEN "done" ELSE "recv"],
             procs[p].out, procs[p].v)
  /\ UNCHANGED <<futVars, wg, input, stage, fired>>

\* Limit: select { case <-ctx.Done(): return }
LimitDone(p) ==
  /\ IsProc(p, "Limit", "send")
  /\ TokenDone(p)
  /\ Alone(p, [procs[p] EXCEPT !.pc = "done"])
  /\ UNCHANGED <<futVars, wg, input, stage, fired>>

----
\* Collector: the batch rule finds its input closed.
CollectorInClosed(p) ==
  /\ IsProc(p, "Collector", "recv")
  /\ InClosed(p)
  /\ UNCHANGED <<futVars, wg, input, stage, fired>>

\* Collector: select { case out <- v: }
CollectorSend(p) ==
  /\ IsProc(p, "Collector", "send")
  /\ Deliver(p, [procs[p] EXCEPT !.pc = "recv"], procs[p].out, procs[p].v)
  /\ UNCHANGED <<futVars, wg, input, stage, fired>>

\* Collector: select { case <-ctx.Done(): return }
CollectorDone(p) ==
  /\ IsProc(p, "Collector", "send")
  /\ TokenDone(p)
  /\ Alone(p, [procs[p] EXCEPT !.pc = "done"])
  /\ UNCHANGED <<futVars, wg, input, stage, fired>>

----
\* Unroll: for arr := range in, the input (an OrDone) is closed.
UnrollInClosed(p) ==
  /\ IsProc(p, "Unroll", "recv")
  /\ InClosed(p)
  /\ UNCHANGED <<futVars, wg, input, stage, fired>>

\* An Unroll that sends the first element of every batch only.
UnrollSendHeadOnly(p) ==
  /\ IsProc(p, "Unroll", "send")
  /\ Deliver(p, [procs[p] EXCEPT !.buf = << >>, !.pc = "recv"],
             procs[p].out, Head(procs[p].buf))
  /\ UNCHANGED <<futVars, wg, input, stage, fired>>

\* Unroll: for _, val := range arr { select { case out <- val: } }
UnrollSend(p) ==
  /\ IsProc(p, "Unroll", "send")
  /\ Deliver(p, [procs[p] EXCEPT !.buf = Tail(@),
                                 !.pc = IF Len(procs[p].buf) = 1 THEN "recv" ELSE "send"],
             procs[p].out, Head(procs[p].buf))
  /\ UNCHANGED <<futVars, wg, input, stage, fired>>

\* Unroll: select { case <-ctx.Done(): return }
UnrollDone(p) ==
  /\ IsProc(p, "Unroll", "send")
  /\ TokenDone(p)
  /\ Alone(p, [procs[p] EXCEPT !.pc = "done"])
  /\ UNCHANGED <<futVars, wg, input, stage, fired>>

----
\* Accumulate: for v := range OrDone(ctx, input) ends, the OrDone is closed.
AccumulateInClosed(p) ==
  /\ IsProc(p, "Accumulate", "recv")
  /\ procs[p].in \in closedCh
  /\ Alone(p, [procs[p] EXCEPT !.pc = "check", !.seen = TokenDone(p)])
  /\ UNCHANGED <<futVars, wg, input, stage, fired>>

\* An Accumulate that returns without looking at the token.
AccumulateNoCheck(p) ==
  /\ IsProc(p, "Accumulate", "check")
  /\ Alone(p, [procs[p] EXCEPT !.pc = "done"])
  /\ UNCHANGED <<futVars, wg, input, stage, fired>>

\* Accumulate: select { case <-ctx.Done(): err = ctx.Err(); default: };
\* return out, err
AccumulateCheck(p) ==
  /\ IsProc(p, "Accumulate", "check")
  /\ Alone(p, [procs[p] EXCEPT !.pc = "done",
                               !.err = IF TokenDone(p) THEN CtxErr(procs[p].ctx) ELSE @])
  /\ UNCHANGED <<futVars, wg, input, stage, fired>>

----
\* Tee: for v := range OrDone(ctx, in), the OrDone is closed; the deferred
\* close(out2) and close(out1) run.
TeeInClosed(p) ==
  /\ IsProc(p, "Tee", "recv")
  /\ InClosed(p)
  /\ UNCHANGED <<futVars, wg, input, stage, fired>>

\* A Tee that does not set out1 to nil after its first send.
TeeSend1KeepsOut1(p) ==
  /\ IsProc(p, "Tee", "sel1")
  /\ Deliver(p, [procs[p] EXCEPT !.pc = "sel2"], procs[p].out, procs[p].v)
  /\ UNCHANGED <<futVars, wg, input, stage, fired>>

\* Tee, first select: case out1 <- v: out1 = nil
TeeSend1(p) ==
  /\ IsProc(p, "Tee", "sel1")
  /\ Deliver(p, [procs[p] EXCEPT !.pc = "sel2", !.o1 = FALSE], procs[p].out, procs[p].v)
  /\ UNCHANGED <<futVars, wg, input, stage, fired>>

\* A Tee whose first select, having sent on out2, skips the second select.
TeeSend2SkipsRest(p) ==
  /\ IsProc(p, "Tee", "sel1")
  /\ Deliver(p, [procs[p] EXCEPT !.pc = "recv", !.o2 = FALSE], procs[p].out2, procs[p].v)
  /\ UNCHANGED <<futVars, wg, input, stage, fired>>

\* Tee, first select: case out2 <- v: out2 = nil
TeeSend2(p) ==
  /\ IsProc(p, "Tee", "sel1")
  /\ Deliver(p, [procs[p] EXCEPT !.pc = "sel2", !.o2 = FALSE], procs[p].out2, procs[p].v)
  /\ UNCHANGED <<futVars, wg, input, stage, fired>>

\* Tee, first select: case <-ctx.Done():
TeeDone1(p) ==
  /\ IsProc(p, "Tee", "sel1")
  /\ TokenDone(p)
  /\ Alone(p, [procs[p] EXCEPT !.pc = "sel2"])
  /\ UNCHANGED <<futVars, wg, input, stage, fired>>

\* A Tee whose second select sends on either output, nil or not.
TeeSendRestAny(p) ==
  /\ IsProc(p, "Tee", "sel2")
  /\ \E c \in {procs[p].out, procs[p].out2} :
       Deliver(p, [procs[p] EXCEPT !.pc = "recv"], c, procs[p].v)
  /\ UNCHANGED <<futVars, wg, input, stage, fired>>

\* Tee, second select: case out1 <- v: / case out2 <- v: on the copies
\* that are not nil.
TeeSendRest(p) ==
  /\ IsProc(p, "Tee", "sel2")
  /\ \E c \in {procs[p].out, procs[p].out2} :
       /\ (c = procs[p].out /\ procs[p].o1) \/ (c = procs[p].out2 /\ procs[p].o2)
       /\ Deliver(p, [procs[p] EXCEPT !.pc = "recv"], c, procs[p].v)
  /\ UNCHANGED <<futVars, wg, input, stage, fired>>

\* A Tee that starts the round of its item again when the second select
\* sees the token.
TeeDone2Retries(p) ==
  /\ IsProc(p, "Tee", "sel2")
  /\ TokenDone(p)
  /\ Alone(p, [procs[p] EXCEPT !.pc = "sel1"])
  /\ UNCHANGED <<futVars, wg, input, stage, fired>>

\* Tee, second select: case <-ctx.Done():
TeeDone2(p) ==
  /\ IsProc(p, "Tee", "sel2")
  /\ TokenDone(p)
  /\ Alone(p, [procs[p] EXCEPT !.pc = "recv"])
  /\ UNCHANGED <<futVars, wg, input, stage, fired>>

----
\* A relay whose return takes two off the join counter.
RelayInClosedDoneTwice(p) ==
  /\ IsProc(p, "Relay", "recv")
  /\ InClosed(p)
  /\ wg' = IF wg >= 2 THEN wg - 2 ELSE 0
  /\ UNCHANGED <<futVars, input, stage, fired>>

\* Merge, a relay (fanout): for v := range in ends; the deferred wg.Done().
RelayInClosed(p) ==
  /\ IsProc(p, "Relay", "recv")
  /\ InClosed(p)
  /\ wg' = wg - 1
  /\ UNCHANGED <<futVars, input, stage, fired>>

\* Merge, a relay: out <- v, a plain send.
RelaySend(p) ==
  /\ IsProc(p, "Relay", "send")
  /\ Deliver(p, [procs[p] EXCEPT !.pc = "recv"], procs[p].out, procs[p].v)
  /\ UNCHANGED <<futVars, wg, input, stage, fired>>

\* A Merge that closes its output without waiting for the relays.
MergeCloseNoWait(p) ==
  /\ IsProc(p, "Closer", "wait")
  /\ Alone(p, [procs[p] EXCEPT !.pc = "done"])
  /\ UNCHANGED <<futVars, wg, input, stage, fired>>

\* Merge: wg.Wait() returns, the deferred close(ch) runs.
MergeClose(p) ==
  /\ IsProc(p, "Closer", "wait")
  /\ wg = 0
  /\ Alone(p, [procs[p] EXCEPT !.pc = "done"])
  /\ UNCHANGED <<futVars, wg, input, stage, fired>>

(***************************************************************************)
(* One stage between a producer and its consumers.                         *)
(***************************************************************************)

\* Longest input sequence.
MaxLen == 3

Vals == 1..2

SeqsUpTo(S, n) == UNION { [1..k -> S] : k \in 0..n }

\* The batches a producer of batches sends: items cut in pairs.
RECURSIVE Chunks(_)
Chunks(items) ==
  IF Len(items) <= 2
    THEN (IF Len(items) = 0 THEN << >> ELSE << items >>)
    ELSE << SubSeq(items, 1, 2) >> \o Chunks(SubSeq(items, 3, Len(items)))

RECURSIVE Flatten(_)
Flatten(batches) ==
  IF Len(batches) = 0 THEN << >> ELSE Head(batches) \o Flatten(Tail(batches))

StageNames == {"Generate", "Map", "Limit", "Collector", "Filter", "Tee", "Unroll"}

\* The goroutines a call of the stage starts, with the producer of its
\* input before them and a consumer of each output after them.  Limit,
\* Collector, Tee and Unroll read their input through an OrDone.
Stage(name, items, inf, n) ==
  CASE name = "Generate" ->
         << GenerateProc(1, items, inf), Sink(1, ~inf) >>
    [] name = "Map" ->
         << Src(1, items, inf), MapProc(1, 2, "double"), Sink(2, ~inf) >>
    [] name = "Limit" ->
         \* if n == 0 { return nil }: no goroutine, the consumer holds nil
         IF n = 0
           THEN << Src(1, items, inf), Sink(NilChan, ~inf) >>
           ELSE << Src(1, items, inf), OrDone(1, 2), LimitProc(2, 3, n), Sink(3, ~inf) >>
    [] name = "Collector" ->
         << Src(1, items, inf), OrDone(1, 2), CollectorProc(2, 3, n), Sink(3, ~inf) >>
    [] name = "Filter" ->
         << Src(1, items, inf), OrDone(1, 2),
            FilterProc(2, 3, IF n = 1 THEN "all" ELSE "even"), Sink(3, ~inf) >>
    [] name = "Tee" ->
         << Src(1, items, inf), OrDone(1, 2), TeeProc(2, 3, 4), Sink(3, ~inf), Sink(4, ~inf) >>
    [] name = "Unroll" ->
         << Src(1, Chunks(items), inf), OrDone(1, 2), UnrollProc(2, 3), Sink(3, ~inf) >>

\* A stage built over an input from inputs, or over one that never ends.
StageInitOver(inputs) ==
  /\ FutOff
  /\ fired = [t \in Tokens |-> FALSE]
  /\ closedCh = {}
  /\ wg = 0
  /\ \E name \in StageNames, items \in inputs \cup { << 1 >> }, inf \in BOOLEAN, n \in 0..2 :
       /\ inf => items = << 1 >>
       /\ (name \notin {"Limit", "Collector", "Filter"}) => n = 2
       /\ (name \in {"Collector", "Filter"}) => n >= 1
       /\ input = << items >>
       /\ stage = name
       /\ procs = Stage(name, items, inf, n)

\* The steps of goroutine p, a consumer's decision to stop aside.
StageStep(p) ==
  \/ SrcSend(p) \/ SrcClose(p) \/ SinkClosed(p)
  \/ GenerateNext(p) \/ GenerateSend(p) \/ GenerateDone(p)
  \/ MapDone(p) \/ MapInClosed(p) \/ MapSend(p) \/ MapSkip(p)
  \/ LimitInClosed(p) \/ LimitSend(p) \/ LimitDone(p)
  \/ CollectorInClosed(p) \/ CollectorSend(p) \/ CollectorDone(p)
  \/ UnrollInClosed(p) \/ UnrollSend(p) \/ UnrollDone(p)
  \/ TeeInClosed(p) \/ TeeSend1(p) \/ TeeSend2(p) \/ TeeDone1(p)
  \/ TeeSendRest(p) \/ TeeDone2(p)

StageNext ==
  \/ Fire("ctx")
  \/ \E p \in ProcIds : SinkStop(p)
  \/ \E p \in ProcIds : StageStep(p)

StageInit == StageInitOver(SeqsUpTo(Vals, MaxLen))

\* The <-ctx.Done() cases of the selects of goroutine p.
StageDoneStep(p) ==
  \/ GenerateDone(p) \/ MapDone(p) \/ LimitDone(p) \/ CollectorDone(p)
  \/ UnrollDone(p) \/ TeeDone1(p) \/ TeeDone2(p)

\* Every goroutine that can take a step takes one in the end, and a select
\* whose <-ctx.Done() case is ready again and again takes it in the end.
StageFair ==
  \A p \in 1..5 : WF_vars(StageStep(p)) /\ SF_vars(StageDoneStep(p))

StageSpec == StageInit /\ [][StageNext]_vars

\* The stages over an empty input, a one-item input and an endless one,
\* under fair scheduling.
StageLiveSpec == StageInitOver({ << >>, << 2 >> }) /\ [][StageNext]_vars /\ StageFair

\* The goroutines of the stage itself.
StageProcs == { p \in DOMAIN procs : procs[p].kind \notin {"Src", "Sink"} }

\* Every task of the stage has returned and closed the channels it made.
StageFinished ==
  \A p \in StageProcs : procs[p].pc = "done" /\ Owned(procs[p]) \subseteq closedCh

\* C5: once the token has fired, every task of Generate, Map/OrDone, Limit,
\* Collector, Tee and Unroll returns and closes its outputs in the end, also
\* when the consumers have stopped and the producer never stops.
C5_StagesTerminate == fired["ctx"] ~> StageFinished

\* The stage is finished though its producer goes on for ever and a
\* consumer has stopped receiving.
C5_Witness ==
  /\ stage \in StageNames
  /\ fired["ctx"]
  /\ StageFinished
  /\ \E p \in DOMAIN procs : procs[p].kind \in {"Src", "Generate"} /\ procs[p].inf
  /\ \E p \in DOMAIN procs : procs[p].kind = "Sink" /\ procs[p].pc = "stopped"

(***************************************************************************)
(* Merge: an OrDone and a relay per input, one output, a goroutine that    *)
(* closes the output after wg.Wait().                                      *)
(***************************************************************************)

\* Most inputs given to Merge, and the longest of them.
MaxInputs == 2

MaxMergeLen == 2

\* Merge(ctx, chans...) with len(chans) >= 2: chans[j] is the channel of
\* producer chans[j]; OrDone j sends on n + j, every relay on 2n + 1.
MergeProcs(chans, items) ==
  LET n == Len(chans)
      srcs == { chans[j] : j \in 1..n }
      k == Cardinality(srcs)
  IN [p \in 1..(k + 2 * n + 2) |->
        IF p <= k THEN Src(p, items[p], FALSE)
        ELSE IF p <= k + n THEN OrDone(chans[p - k], n + (p - k))
        ELSE IF p <= k + 2 * n THEN Relay(n + (p - k - n), 2 * n + 1)
        ELSE IF p = k + 2 * n + 1 THEN Closer(2 * n + 1)
        ELSE Sink(2 * n + 1, TRUE)]

\* The caller passes n different channels, or the same channel n times.
MergeInit ==
  /\ FutOff
  /\ fired = [t \in Tokens |-> FALSE]
  /\ closedCh = {}
  /\ stage = "Merge"
  /\ \E n \in 2..MaxInputs, same \in BOOLEAN :
       \E lens \in [1..(IF same THEN 1 ELSE n) -> 0..MaxMergeLen] :
         /\ input = [j \in DOMAIN lens |-> [i \in 1..lens[j] |-> i]]
         /\ procs = MergeProcs([j \in 1..n |-> IF same THEN 1 ELSE j], input)
         /\ wg = n

MergeStep(p) ==
  \/ SrcSend(p) \/ SrcClose(p) \/ SinkClosed(p)
  \/ MapDone(p) \/ MapInClosed(p) \/ MapSend(p) \/ MapSkip(p)
  \/ RelayInClosed(p) \/ RelaySend(p) \/ MergeClose(p)

MergeNext ==
  \/ Fire("ctx")
  \/ \E p \in ProcIds : SinkStop(p)
  \/ \E p \in ProcIds : MergeStep(p)

MergeFair ==
  \A p \in 1..(3 * MaxInputs + 2) : WF_vars(MergeStep(p)) /\ SF_vars(MapDone(p))

MergeSpec == MergeInit /\ [][MergeNext]_vars /\ MergeFair

----
\* The channel the stage's last goroutine of this kind sends on.
OutOf(kind) == procs[CHOOSE p \in DOMAIN procs : procs[p].kind = kind].out

\* What the consumer of channel c has received.
Got(c) == procs[CHOOSE p \in DOMAIN procs : procs[p].kind = "Sink" /\ procs[p].in = c].got

Count(s, v) == Cardinality({ i \in DOMAIN s : s[i] = v })

SameBag(s, t) ==
  \A v \in { s[i] : i \in DOMAIN s } \cup { t[i] : i \in DOMAIN t } : Count(s, v) = Count(t, v)

RECURSIVE SeqOfSet(_)
SeqOfSet(S) ==
  IF S = {} THEN << >> ELSE LET x == CHOOSE y \in S : TRUE IN << x >> \o SeqOfSet(S \ {x})

\* The values goroutines of the given kinds hold between receive and send.
InHand(kinds) ==
  LET H == { p \in DOMAIN procs : procs[p].kind \in kinds /\ procs[p].pc = "send" }
      ps == SeqOfSet(H)
  IN [i \in DOMAIN ps |-> procs[ps[i]].v]

\* What has been received from the producers so far.
Taken ==
  Flatten([j \in DOMAIN input |->
             SubSeq(input[j], 1, Len(input[j]) - Len(procs[j].items))])

\* C6: once the token has fired every relay of Merge returns and the
\* merged output is closed in the end, also when the consumer has stopped.
C6_MergeTerminates ==
  fired["ctx"] ~>
    /\ \A p \in DOMAIN procs : procs[p].kind \in {"Relay", "Closer"} => procs[p].pc = "done"
    /\ OutOf("Closer") \in closedCh

\* C7: without cancellation every value taken from an input of Merge is
\* in a relay's hands or delivered, once; and when the output is closed
\* every input is closed and the consumer has the inputs' multiset union.
C7_MergeMultiset ==
  (stage = "Merge" /\ ~fired["ctx"]) =>
     /\ SameBag(Got(OutOf("Closer")) \o InHand({"Map", "Relay"}), Taken)
     /\ OutOf("Closer") \in closedCh =>
          /\ \A j \in DOMAIN input : j \in closedCh
          /\ SameBag(Got(OutOf("Closer")), Flatten(input))

\* A merge of two non-empty inputs delivered and closed.
C7_Witness ==
  /\ stage = "Merge"
  /\ ~fired["ctx"]
  /\ OutOf("Closer") \in closedCh
  /\ Len(input) = 2 /\ Len(input[1]) = 2 /\ Len(input[2]) = 2
  /\ Len(Got(OutOf("Closer"))) = 4

(***************************************************************************)
(* Split (a chain of Tees) and Spread (OrDones over one input).            *)
(***************************************************************************)

\* Most outputs asked of Split and Spread.
MaxSplit == 3

\* Longest input given to Split and Spread; the items are 1, 2, ...
MaxFanLen == 2

\* Split(ctx, input, n) with n >= 2: for i := range out[1:] {
\* out[i+1], tee = Tee(ctx, tee) }; out[0] = tee.  Tee i reads channel
\* 3i - 2 (the input is channel 1) through its OrDone, which sends on
\* 3i - 1; its first output is 3i, its second 3i + 1.
Split(n) ==
  [procs |-> [p \in 1..(2 * (n - 1)) |->
                LET i == (p + 1) \div 2
                IN IF p % 2 = 1 THEN OrDone(3 * i - 2, 3 * i - 1)
                                ELSE TeeProc(3 * i - 1, 3 * i, 3 * i + 1)],
   out |-> [j \in 1..n |-> IF j = 1 THEN 3 * (n - 1) + 1 ELSE 3 * (j - 1)]]

\* Spread(ctx, in, num) with num # 1: out[i] = OrDone(ctx, in).
Spread(n) ==
  [procs |-> [p \in 1..n |-> OrDone(1, 1 + p)],
   out |-> [j \in 1..n |-> 1 + j]]

\* The producer of the input, the goroutines built, a consumer per output.
WithEnds(items, built) ==
  << Src(1, items, FALSE) >> \o built.procs \o
  [j \in DOMAIN built.out |-> Sink(built.out[j], TRUE)]

FanOutInit(name) ==
  /\ FutOff
  /\ fired = [t \in Tokens |-> FALSE]
  /\ closedCh = {}
  /\ wg = 0
  /\ stage = name
  /\ \E n \in 2..MaxSplit, len \in 0..MaxFanLen :
       /\ input = << [k \in 1..len |-> k] >>
       /\ procs = WithEnds([k \in 1..len |-> k], IF name = "Split" THEN Split(n) ELSE Spread(n))

SplitStep(p) ==
  \/ SrcSend(p) \/ SrcClose(p) \/ SinkClosed(p)
  \/ MapDone(p) \/ MapInClosed(p) \/ MapSend(p) \/ MapSkip(p)
  \/ TeeInClosed(p) \/ TeeSend1(p) \/ TeeSend2(p) \/ TeeDone1(p)
  \/ TeeSendRest(p) \/ TeeDone2(p)

SplitNext ==
  \/ Fire("ctx")
  \/ \E p \in ProcIds : SinkStop(p)
  \/ \E p \in ProcIds : SplitStep(p)

SplitSpec == FanOutInit("Split") /\ [][SplitNext]_vars

SpreadStep(p) ==
  \/ SrcSend(p) \/ SrcClose(p) \/ SinkClosed(p)
  \/ MapDone(p) \/ MapInClosed(p) \/ MapSend(p) \/ MapSkip(p)

SpreadNext ==
  \/ Fire("ctx")
  \/ \E p \in ProcIds : SinkStop(p)
  \/ \E p \in ProcIds : SpreadStep(p)

SpreadSpec == FanOutInit("Spread") /\ [][SpreadNext]_vars

----
Sinks == { p \in DOMAIN procs : procs[p].kind = "Sink" }

\* The channels handed to the consumers.
Outputs == { procs[p].in : p \in Sinks }

IsPrefix(s, t) == Len(s) <= Len(t) /\ s = SubSeq(t, 1, Len(s))

\* The input is finite, the token has not fired, every consumer receives.
Draining ==
  /\ ~fired["ctx"]
  /\ \A p \in DOMAIN procs : ~procs[p].inf
  /\ \A p \in Sinks : procs[p].pc # "stopped"

AllDone == \A p \in DOMAIN procs : procs[p].pc = "done"

\* What all the consumers together have received.
AllGot == Flatten([i \in 1..Cardinality(Sinks) |-> procs[SeqOfSet(Sinks)[i]].got])

\* C8: without cancellation each output of Tee carries the input sequence
\* in order, nothing missing or twice: what a consumer has is a prefix of
\* the input, the whole input once the outputs are closed, and while both
\* consumers receive, Tee is never stuck before both outputs are closed.
C8_TeeComplete ==
  (stage = "Tee" /\ Draining) =>
     /\ \A p \in Sinks : IsPrefix(procs[p].got, input[1])
     /\ \A p \in Sinks : procs[p].in \in closedCh => procs[p].got = input[1]
     /\ (3 \in closedCh) = (4 \in closedCh)
     /\ AllDone \/ ENABLED (\E p \in ProcIds : StageStep(p))

\* Both consumers of a Tee have the whole input of two or more items.
C8_Witness ==
  /\ stage = "Tee"
  /\ Draining
  /\ AllDone
  /\ Len(input[1]) >= 2
  /\ \A p \in Sinks : procs[p].got = input[1]

\* C9: Split with n >= 2 hands out n channels, all different and none the
\* input; without cancellation every consumer gets the input sequence in
\* order and, while all consumers receive, the chain of Tees is never
\* stuck before all outputs are closed.
C9_SplitBroadcast ==
  (stage = "Split") =>
     /\ Cardinality(Outputs) = Cardinality(Sinks)
     /\ Cardinality(Sinks) = (Len(procs) + 1) \div 3
     /\ 1 \notin Outputs
     /\ Draining =>
          /\ \A p \in Sinks : IsPrefix(procs[p].got, input[1])
          /\ \A p \in Sinks : procs[p].in \in closedCh => procs[p].got = input[1]
          /\ AllDone \/ ENABLED (\E p \in ProcIds : SplitStep(p))

\* Three consumers of a Split have the whole input of two or more items.
C9_Witness ==
  /\ stage = "Split"
  /\ Draining
  /\ AllDone
  /\ Cardinality(Sinks) = 3
  /\ Len(input[1]) >= 2
  /\ \A p \in Sinks : procs[p].got = input[1]

\* C10: without cancellation every item taken from the input of Spread is
\* held by one OrDone or delivered to one consumer, never two, never
\* none; when all outputs are closed the consumers together have the input
\* multiset; while all consumers receive, nothing is stuck before that.
C10_SpreadExactlyOne ==
  (stage = "Spread" /\ Draining) =>
     /\ SameBag(AllGot \o InHand({"Map"}), Taken)
     /\ Outputs \subseteq closedCh => SameBag(AllGot, input[1])
     /\ (AllDone /\ Outputs \subseteq closedCh)
          \/ ENABLED (\E p \in ProcIds : SpreadStep(p))

\* The input of a Spread delivered, shared between two consumers.
C10_Witness ==
  /\ stage = "Spread"
  /\ Draining
  /\ AllDone
  /\ Len(input[1]) >= 2
  /\ Len(AllGot) = Len(input[1])
  /\ Cardinality({ p \in Sinks : Len(procs[p].got) > 0 }) >= 2

----
\* The goroutine of the given kind, where the stage started one.
The(kind) == CHOOSE p \in DOMAIN procs : procs[p].kind = kind

Has(kind) == \E p \in DOMAIN procs : procs[p].kind = kind

\* What the one consumer of a stage has received.
Received == procs[The("Sink")].got

Min(a, b) == IF a <= b THEN a ELSE b

FirstN(s, n) == SubSeq(s, 1, Min(n, Len(s)))

\* C11: without cancellation and with a receiving consumer, Limit with
\* n >= 1 delivers the first min(n, L) items of its input in order (what
\* the consumer has is a prefix of them, all of them at closure), and it
\* is never stuck before it has returned and closed its output.
C11_LimitFirstN ==
  (stage = "Limit" /\ Has("Limit") /\ Draining) =>
     LET n == procs[The("Limit")].n
     IN /\ IsPrefix(Received, FirstN(input[1], n))
        /\ procs[The("Limit")].out \in closedCh => Received = FirstN(input[1], n)
        /\ procs[The("Limit")].pc = "done" \/ ENABLED (\E p \in ProcIds : StageStep(p))

\* Limit 2 over three items has delivered the first two and closed.
C11_Witness ==
  /\ stage = "Limit"
  /\ Has("Limit")
  /\ Draining
  /\ procs[The("Limit")].n = 2
  /\ Len(input[1]) = 3
  /\ procs[The("Limit")].out \in closedCh
  /\ Received = SubSeq(input[1], 1, 2)

\* C12: Limit with n >= 1 over a finite input of more than n items never
\* has more than n items taken from the caller's input channel.
C12_LimitTakesAtMostN ==
  (/\ stage = "Limit"
   /\ Has("Limit")
   /\ ~procs[1].inf
   /\ Len(input[1]) > procs[The("Limit")].n) =>
     Len(Taken) <= procs[The("Limit")].n

\* C13: a consumer receiving from the channel Limit(ctx, 0, in) returned
\* sees the end of the stream in the end (unless it gives up by itself).
C13_LimitZeroExhausted ==
  (stage = "Limit" /\ ~Has("Limit")) ~> (procs[The("Sink")].pc \in {"done", "stopped"})

(***************************************************************************)
(* Accumulate over the caller's channel.                                   *)
(***************************************************************************)

AccumulateInit ==
  /\ FutOff
  /\ fired = [t \in Tokens |-> FALSE]
  /\ closedCh = {}
  /\ wg = 0
  /\ stage = "Accumulate"
  /\ \E items \in SeqsUpTo(Vals, MaxLen), fn \in {"sum", "mulStop"} :
       /\ input = << items >>
       /\ procs = << Src(1, items, FALSE), OrDone(1, 2), AccumulateProc(2, fn) >>

AccumulateStep(p) ==
  \/ SrcSend(p) \/ SrcClose(p)
  \/ MapDone(p) \/ MapInClosed(p) \/ MapSend(p) \/ MapSkip(p)
  \/ AccumulateInClosed(p) \/ AccumulateCheck(p)

AccumulateNext ==
  \/ Fire("ctx")
  \/ \E p \in ProcIds : AccumulateStep(p)

AccumulateSpec == AccumulateInit /\ [][AccumulateNext]_vars

----
\* The left fold of items from acc by fn as long as fn does not fail:
\* the accumulator passed to the failing call (before), what that call
\* returned (v, err) and the number of calls made.
RECURSIVE FoldAll(_, _, _, _)
FoldAll(fn, acc, items, calls) ==
  IF Len(items) = 0
    THEN [before |-> acc, v |-> acc, err |-> Nil, calls |-> calls]
    ELSE LET f == Fold(fn, acc, Head(items))
         IN IF f.err # Nil
              THEN [before |-> acc, v |-> f.v, err |-> f.err, calls |-> calls + 1]
              ELSE FoldAll(fn, f.v, Tail(items), calls + 1)

Acc == procs[The("Accumulate")]

\* The fold of the whole input, and of the items fn was called on (with a
\* fired token the OrDone may have dropped items).
Whole == FoldAll(Acc.fn, InitVal(Acc.fn), input[1], 0)

Run == FoldAll(Acc.fn, InitVal(Acc.fn), Acc.got, 0)

\* Accumulate returned the error of fn.
FnFailed == stage = "Accumulate" /\ Acc.pc = "done" /\ Acc.err = ErrClosedPipe

\* C14 as stated: when fn fails Accumulate returns the accumulator that
\* was passed into the failing call, fn being called on no later item.
C14_AccumulateShortCircuit ==
  FnFailed => /\ Acc.v = Run.before
              /\ Acc.i = Run.calls
              /\ Acc.i = Len(Acc.got)

\* C14 amended: when fn fails Accumulate returns fn's error and the
\* accumulator fn returned with it, fn being called on no later item
\* (without cancellation the items fn saw are the input up to that one).
C14_AccumulateShortCircuitAmended ==
  /\ FnFailed => /\ Acc.v = Run.v
                 /\ Acc.err = Run.err
                 /\ Acc.i = Run.calls
                 /\ Acc.i = Len(Acc.got)
                 /\ ~fired["ctx"] => Acc.got = SubSeq(input[1], 1, Whole.calls)
  /\ (stage = "Accumulate" /\ Acc.err = ErrClosedPipe) => Acc.pc = "done"

\* fn failed on the second item of three.
C14_Witness ==
  /\ FnFailed
  /\ Len(input[1]) = 3
  /\ Acc.i = 2

\* C15: with a fold function that never fails, Accumulate returns the
\* fold of the whole input and a nil error if the token never fired, the
\* token's error if the token had fired when the loop ended, and a nil
\* error only with the fold of the whole input.
C15_AccumulateResult ==
  (stage = "Accumulate" /\ Acc.fn = "sum" /\ Acc.pc = "done") =>
     /\ ~fired["ctx"] => (Acc.err = Nil /\ Acc.v = Whole.v)
     /\ Acc.seen => Acc.err = CtxErr("ctx")
     /\ Acc.err = Nil => (Acc.v = Whole.v /\ Acc.i = Len(input[1]))
     /\ Acc.err \in {Nil, CtxErr("ctx")}

\* Accumulate returned the token's error with part of the input folded.
C15_Witness ==
  /\ stage = "Accumulate"
  /\ Acc.fn = "sum"
  /\ Acc.pc = "done"
  /\ Acc.seen
  /\ Acc.err = CtxErr("ctx")
  /\ Acc.i = 1
  /\ Len(input[1]) = 3

----
\* No token has fired.
NoCancel == \A t \in Tokens : ~fired[t]

\* C16: for Then(ctx, first, next) without cancellation: if first's
\* function fails, next is never invoked and Await yields the zero value
\* with first's error; if it succeeds with t, next is invoked once, with
\* t, and Await yields what next returned.
C16_ThenShortCircuit ==
  (stage = "Future" /\ Len(chain) = 2 /\ chain[2] = "Then" /\ NoCancel) =>
     /\ user.fnErr # Nil =>
          /\ nextCalls = 0
          /\ \A a \in Awaiters : aw[a].how = "result" =>
                (aw[a].val = 0 /\ aw[a].err = user.fnErr)
     /\ user.fnErr = Nil =>
          /\ nextCalls <= 1
          /\ \A a \in Awaiters : aw[a].how = "result" =>
                /\ nextCalls >= 1
                /\ aw[a].val = NextFn(FnVal)
                /\ aw[a].err = user.nextErr

----
\* s is t with some of its elements left out.
RECURSIVE IsSubseq(_, _)
IsSubseq(s, t) ==
  IF Len(s) = 0 THEN TRUE
  ELSE IF Len(t) = 0 THEN FALSE
  ELSE IF Head(s) = Head(t) THEN IsSubseq(Tail(s), Tail(t)) \/ IsSubseq(s, Tail(t))
  ELSE IsSubseq(s, Tail(t))

\* C17: without cancellation and with a receiving consumer, Generate
\* delivers the values of the calls that returned more == true, in call
\* order, each once (the consumer has a prefix of them, all of them at
\* closure, so never the value that came with more == false), the
\* stepping function is called k + 1 times, and Generate is never stuck
\* before it has returned.
C17_GenerateDelivers ==
  (stage = "Generate" /\ Draining) =>
     /\ IsPrefix(Received, input[1])
     /\ 1 \in closedCh => (Received = input[1] /\ procs[1].i = Len(input[1]) + 1)
     /\ procs[1].pc = "done" \/ ENABLED (\E p \in ProcIds : StageStep(p))

\* Generate has delivered its three values and closed.
C17_Witness ==
  /\ stage = "Generate"
  /\ Draining
  /\ 1 \in closedCh
  /\ Len(input[1]) = 3
  /\ Received = input[1]

\* What the doubling given to Map makes of every element.
Mapped(s) == [i \in DOMAIN s |-> 2 * s[i]]

\* C18: in every execution the consumer of Map has fn applied to a
\* subsequence of the items taken from the input, in order; without
\* cancellation and with a receiving consumer it has fn applied to a
\* prefix of the input, to the whole input at closure, and Map is never
\* stuck before it has returned.
C18_MapOrder ==
  (stage = "Map" /\ ~procs[1].inf) =>
     /\ IsSubseq(Received, Mapped(Taken))
     /\ Draining =>
          /\ IsPrefix(Received, Mapped(input[1]))
          /\ procs[The("Map")].out \in closedCh => Received = Mapped(input[1])
          /\ procs[The("Map")].pc = "done" \/ ENABLED (\E p \in ProcIds : StageStep(p))

\* After cancellation Map has dropped an item and delivered a later one.
C18_Witness ==
  /\ stage = "Map"
  /\ ~procs[1].inf
  /\ fired["ctx"]
  /\ input[1] = << 1, 2 >>
  /\ Received = << 4 >>

CeilDiv(a, b) == (a + b - 1) \div b

\* C19: without cancellation and with a receiving consumer, Collector
\* with the batch rule of size k delivers batches of size k, but for a
\* last one of size L mod k, whose concatenation is a prefix of the
\* input; at closure there are ceil(L / k) of them making up the input;
\* Collector is never stuck before it has returned.
C19_CollectorBatches ==
  (stage = "Collector" /\ Draining) =>
     LET k == procs[The("Collector")].n
         L == Len(input[1])
     IN /\ IsPrefix(Flatten(Received), input[1])
        /\ \A i \in DOMAIN Received :
              \/ Len(Received[i]) = k
              \/ i = CeilDiv(L, k) /\ Len(Received[i]) = L % k
        /\ procs[The("Collector")].out \in closedCh =>
              (Len(Received) = CeilDiv(L, k) /\ Flatten(Received) = input[1])
        /\ procs[The("Collector")].pc = "done" \/ ENABLED (\E p \in ProcIds : StageStep(p))

\* Three items collected by two: a full batch and a batch of one.
C19_Witness ==
  /\ stage = "Collector"
  /\ Draining
  /\ procs[The("Collector")].n = 2
  /\ procs[The("Collector")].out \in closedCh
  /\ Len(input[1]) = 3
  /\ Len(Received) = 2
  /\ Len(Received[2]) = 1

\* The items of s that satisfy the predicate.
Accepted(pred, s) == SelectSeq(s, LAMBDA x : Holds(pred, x))

\* C20: without cancellation and with a receiving consumer, Filter
\* delivers the input items that satisfy the predicate, in order, each
\* once (a prefix of them, all of them at closure; with the always-true
\* predicate that is the input), and is never stuck before it returned.
C20_FilterSelects ==
  (stage = "Filter" /\ Draining) =>
     LET pred == procs[The("Collector")].fn
     IN /\ IsPrefix(Received, Accepted(pred, input[1]))
        /\ procs[The("Collector")].out \in closedCh =>
              /\ Received = Accepted(pred, input[1])
              /\ pred = "all" => Received = input[1]
        /\ procs[The("Collector")].pc = "done" \/ ENABLED (\E p \in ProcIds : StageStep(p))

\* The even items of an input with odd and even ones, delivered.
C20_Witness ==
  /\ stage = "Filter"
  /\ Draining
  /\ procs[The("Collector")].fn = "even"
  /\ procs[The("Collector")].out \in closedCh
  /\ input[1] = << 2, 1, 2 >>
  /\ Received = << 2, 2 >>

----
\* C21: without cancellation and with a receiving consumer, Unroll
\* delivers the concatenation of the batches of its input, batch after
\* batch and in each batch element after element (the consumer has a
\* prefix of it, all of it at closure), and Unroll is never stuck before
\* it has returned.
C21_UnrollFlattens ==
  (stage = "Unroll" /\ Draining) =>
     /\ IsPrefix(Received, Flatten(Chunks(input[1])))
     /\ procs[The("Unroll")].out \in closedCh => Received = Flatten(Chunks(input[1]))
     /\ procs[The("Unroll")].pc = "done" \/ ENABLED (\E p \in ProcIds : StageStep(p))

\* A batch of two and a batch of one have been flattened.
C21_Witness ==
  /\ stage = "Unroll"
  /\ Draining
  /\ procs[The("Unroll")].out \in closedCh
  /\ Len(Chunks(input[1])) = 2
  /\ Len(Received) = 3
  /\ Received = input[1]

(***************************************************************************)
(* Range over int8.                                                        *)
(***************************************************************************)

\* The ends and the steps Range is called with.
RangeEnds == {IntMin, -2, 0, 3, IntMax}

RangeSteps == {-100, -2, -1, 0, 1, 2, 100}

RangeInit ==
  /\ FutOff
  /\ fired = [t \in Tokens |-> FALSE]
  /\ closedCh = {}
  /\ wg = 0
  /\ stage = "Range"
  /\ input = << >>
  /\ \E from \in RangeEnds, to \in RangeEnds,
        optStep \in { << >> } \cup { << st >> : st \in RangeSteps } :
       procs = << RangeProc(from, to, optStep) >>

RangeStep(p) ==
  \/ RangeCall(p)
  \/ GenerateNext(p) \/ GenerateSend(p) \/ GenerateDone(p)
  \/ SinkClosed(p)

RangeNext ==
  \/ Fire("ctx")
  \/ \E p \in ProcIds : SinkStop(p)
  \/ \E p \in ProcIds : RangeStep(p)

RangeSpec == RangeInit /\ [][RangeNext]_vars

----
\* The call of Range and its arguments.
Call == procs[1]

\* The step asked for, or the default: +1 ascending, -1 descending.
CallStep == IF Len(Call.buf) > 0 THEN Call.buf[1] ELSE IF Call.from > Call.to THEN -1 ELSE 1

\* from, from + step, from + 2 * step, ... as far as it is before to, in
\* the integers.
Progression(from, to, step) ==
  IF from = to THEN << from >>
  ELSE LET N == IF from < to THEN CeilDiv(to - from, step) ELSE CeilDiv(from - to, 0 - step)
       IN [k \in 1..N |-> from + (k - 1) * step]

\* The first term of the progression that is not before to is no int8.
Overflows(from, to, step) ==
  /\ from # to
  /\ LET N == Len(Progression(from, to, step))
     IN from + N * step > IntMax \/ from + N * step < IntMin

Between(v, a, b) == (a <= v /\ v <= b) \/ (b <= v /\ v <= a)

\* C22: Range with a valid step, without cancellation and with a
\* receiving consumer, delivers the progression from from by step (by +1
\* or -1 when no step is given) as far as it is before to, the single
\* value from when from = to (the consumer has a prefix of it, all of it
\* at closure), and is never stuck before the output is closed.
C22_RangeProgression ==
  (stage = "Range" /\ Call.pc = "returned" /\ Draining) =>
     LET expected == Progression(Call.from, Call.to, CallStep)
     IN /\ IsPrefix(Received, expected)
        /\ 1 \in closedCh => Received = expected
        /\ 1 \in closedCh \/ ENABLED (\E p \in ProcIds : RangeStep(p))

C30_RangeNoOverflow ==
  (stage = "Range" /\ Call.pc # "call") =>
     /\ Overflows(Call.from, Call.to, CallStep) => Call.pc = "panic"
     /\ Call.pc = "returned" =>
          /\ \A k \in DOMAIN Received : Between(Received[k], Call.from, Call.to)
          /\ procs[The("Generate")].i <= IntMax - IntMin + 2

(***************************************************************************)
(* Merge, Split and Spread called for one channel or none.                 *)
(***************************************************************************)

\* Nothing started; the channels handed back.
Returned(out) == [procs |-> << >>, out |-> out]

\* Merge: switch len(chans) { case 0: return nil; case 1: return chans[0] }
MergeFew(chans) == IF Len(chans) = 0 THEN Returned(<< NilChan >>) ELSE Returned(<< chans[1] >>)

\* A Split that puts an OrDone before the channel it hands back.
SplitFewRelayed(input_, n) == [procs |-> << OrDone(input_, input_ + 1) >>, out |-> << input_ + 1 >>]

\* Split: if n < teeNum { return []<-chan T{input} }
SplitFew(input_, n) == Returned(<< input_ >>)

\* Spread: if num == 1 { return []<-chan T{in} }
SpreadOne(input_) == Returned(<< input_ >>)

Calls == {"Merge()", "Merge(c)", "Split(c, 0)", "Split(c, 1)", "Spread(c, 1)"}

\* The caller's channel c is channel 1.
IdentityInit ==
  /\ FutOff
  /\ fired = [t \in Tokens |-> FALSE]
  /\ closedCh = {}
  /\ wg = 0
  /\ \E call \in Calls, items \in SeqsUpTo(Vals, MaxLen) :
       /\ stage = call
       /\ input = << items >>
       /\ procs = WithEnds(items,
                     CASE call = "Merge()" -> MergeFew(<< >>)
                       [] call = "Merge(c)" -> MergeFew(<< 1 >>)
                       [] call = "Split(c, 0)" -> SplitFew(1, 0)
                       [] call = "Split(c, 1)" -> SplitFew(1, 1)
                       [] call = "Spread(c, 1)" -> SpreadOne(1))

IdentityStep(p) == SrcSend(p) \/ SrcClose(p) \/ SinkClosed(p)

IdentityNext ==
  \/ Fire("ctx")
  \/ \E p \in ProcIds : SinkStop(p)
  \/ \E p \in ProcIds : IdentityStep(p)

IdentitySpec == IdentityInit /\ [][IdentityNext]_vars

----
\* C24: Merge of one channel, Split with n < 2 and Spread with n = 1 hand
\* back the caller's channel itself and start no goroutine (there are the
\* producer and the consumer only), so the consumer reads the items of
\* the input, all of them when it has seen the closure; Merge of no
\* channel hands back the nil channel.
C24_IdentityCases ==
  (stage \in Calls) =>
     /\ Len(procs) = 2
     /\ \A p \in DOMAIN procs : procs[p].kind \in {"Src", "Sink"}
     /\ stage = "Merge()" => Outputs = {NilChan}
     /\ stage # "Merge()" =>
          /\ Outputs = {procs[1].out}
          /\ IsPrefix(Received, input[1])
          /\ Received = SubSeq(input[1], 1, Len(input[1]) - Len(procs[1].items))
          /\ procs[The("Sink")].pc = "done" => Received = input[1]

\* The consumer of Split(ctx, c, 1) has read the three items of c.
C24_Witness ==
  /\ stage = "Split(c, 1)"
  /\ procs[The("Sink")].pc = "done"
  /\ Len(input[1]) = 3
  /\ Received = input[1]

----
\* Map is at its outer select having lost an item: it has taken more items
\* than it has delivered, which only the <-ctx.Done() case of the inner
\* select brings about.
MapSawDone ==
  /\ stage = "Map"
  /\ ~procs[1].inf
  /\ procs[The("Map")].pc = "recv"
  /\ Len(Taken) > Len(Received)

\* C25: once Map has seen the fired token while it was trying to deliver
\* a value, it takes no further item from its input.
C25_MapStopsAfterDone ==
  [][MapSawDone => procs'[The("Map")].pc # "send"]_vars

(***************************************************************************)
(* Limit and Unroll with a consumer that fires the token after its k-th    *)
(* item and goes on receiving.                                             *)
(***************************************************************************)

MaxLimit == 3

\* The ways the input of Unroll is cut in batches: one by one, or two by
\* two.
Batches(items) == {[i \in DOMAIN items |-> << items[i] >>], Chunks(items)}

CancelInit ==
  /\ FutOff
  /\ fired = [t \in Tokens |-> FALSE]
  /\ closedCh = {}
  /\ wg = 0
  /\ \E items \in SeqsUpTo(Vals, MaxLen) :
       /\ input = << items >>
       /\ \/ \E n \in 2..MaxLimit, k \in 1..(MaxLimit - 1) :
               /\ k < n
               /\ stage = "Limit/cancel"
               /\ procs = << Src(1, items, FALSE), OrDone(1, 2), LimitProc(2, 3, n),
                             CancelSink(3, "ge", k) >>
          \/ \E batches \in Batches(items), k \in 1..(MaxLimit - 1) :
               /\ stage = "Unroll/cancel"
               /\ procs = << Src(1, batches, FALSE), OrDone(1, 2), UnrollProc(2, 3),
                             CancelSink(3, "eq", k) >>

CancelStep(p) ==
  \/ SrcSend(p) \/ SrcClose(p) \/ SinkClosed(p) \/ SinkCancel(p)
  \/ MapDone(p) \/ MapInClosed(p) \/ MapSend(p) \/ MapSkip(p)
  \/ LimitInClosed(p) \/ LimitSend(p) \/ LimitDone(p)
  \/ UnrollInClosed(p) \/ UnrollSend(p) \/ UnrollDone(p)

CancelNext == \E p \in ProcIds : CancelStep(p)

CancelSpec == CancelInit /\ [][CancelNext]_vars

----
\* C26: the consumer of Limit(ctx, n, in) that fires the token after its
\* k-th item, k < n, and goes on receiving, receives nothing more: it
\* has at most k items, the first items of the input.
C26_LimitCancelExact ==
  stage = "Limit/cancel" =>
     /\ Len(Received) <= procs[The("Sink")].n
     /\ IsPrefix(Received, input[1])

\* C27: the consumer of Unroll that fires the token after its k-th
\* element has at most k + 1 elements, and they are the first elements of
\* the concatenation of the batches.
C27_UnrollCancelPrefix ==
  stage = "Unroll/cancel" =>
     /\ Len(Received) <= procs[The("Sink")].n + 1
     /\ IsPrefix(Received, input[1])

----
\* Tee leaves the round of its item by the <-ctx.Done() case of the second
\* select.
TeeInterrupted ==
  /\ stage = "Tee"
  /\ procs[The("Tee")].pc = "sel2"
  /\ procs'[The("Tee")].pc = "recv"
  /\ \A p \in Sinks : procs'[p].got = procs[p].got

\* C28: in every execution of Tee, cancelled or not, each output has a
\* subsequence of the items taken from the input, in order (so no item
\* twice), and an item whose round ends on cancellation has been sent on
\* at most one of the two outputs.
C28_TeeCancelSafe ==
  /\ []((stage = "Tee" /\ ~procs[1].inf) =>
          \A c \in Outputs : IsSubseq(Got(c), Taken))
  /\ [][TeeInterrupted => (procs[The("Tee")].o1 \/ procs[The("Tee")].o2)]_vars

\* After cancellation the first item has reached the first output only
\* and the second item the second output only.
C28_Witness ==
  /\ stage = "Tee"
  /\ fired["ctx"]
  /\ input[1] = << 1, 2 >>
  /\ procs[The("Tee")].pc = "recv"
  /\ Got(3) = << 1 >>
  /\ Got(4) = << 2 >>

\* C29: while the token has not fired, both outputs of Tee have a prefix
\* of the input and no output is more than one item ahead of the other:
\* item k + 1 goes to neither output before item k has gone to both.
C29_TeeLockStep ==
  (stage = "Tee" /\ ~procs[1].inf /\ ~fired["ctx"]) =>
     /\ \A c \in Outputs : IsPrefix(Got(c), input[1])
     /\ \A c, d \in Outputs : Len(Got(c)) <= Len(Got(d)) + 1

\* The consumer of the second output stopped after one item: the first
\* output got one item more and Tee is stuck in its second select.
C29_Witness ==
  /\ stage = "Tee"
  /\ ~fired["ctx"]
  /\ \E p \in Sinks : procs[p].in = 4 /\ procs[p].pc = "stopped"
  /\ procs[The("Tee")].pc = "sel2"
  /\ Len(Got(3)) = 2
  /\ Len(Got(4)) = 1

(***************************************************************************)
(* More claims about futures.                                              *)
(***************************************************************************)

\* The caller's a-th Await has left its select (v and err are set).
Selected(a) == aw[a].pc \notin {"idle", "select"}

\* C31: an Await on a future made by Exec or ExecWithDefer that yields a
\* nil error yields the value the wrapped function returned, and the
\* function returned it with a nil error; so never the zero value with a
\* nil error after the token given to Exec has fired.
C31_AwaitNilErrorIsResult ==
  \A a \in Awaiters :
    (Len(chain) = 1 /\ Selected(a) /\ aw[a].err = Nil) =>
       /\ aw[a].val = FnVal
       /\ user.fnErr = Nil
       /\ aw[a].how = "result"

\* The hand-off goroutines of cleanup channel c that have sent, and those
\* that have run their close.
HandSent(c) == { i \in DOMAIN hand[c] : hand[c][i].pc \in {"close", "done"} }

HandClosed(c) == { i \in DOMAIN hand[c] : hand[c][i].pc = "done" }

\* C32: the cleanup channel of a future made by ExecWithDefer is sent to
\* at most once and closed at most once, and no goroutine is at its send
\* or its close once the channel is closed (where it would panic).
C32_HandoffOnce ==
  (chain = <<"ExecWithDefer">>) =>
     /\ Cardinality(HandSent(1)) <= 1
     /\ Cardinality(HandClosed(1)) <= 1
     /\ dfnClosed[1] => \A i \in DOMAIN hand[1] : hand[1][i].pc = "done"

----
\* The relay goroutines of Merge that have not returned.
RelaysRunning == { p \in DOMAIN procs : procs[p].kind = "Relay" /\ procs[p].pc # "done" }

MergeClosed == OutOf("Closer") \in closedCh

\* C33: in every execution of Merge with two or more inputs, cancelled or
\* not, the join counter is the number of relays that have not returned,
\* the output is closed by the goroutine waiting for the counter only (so
\* once), never while a relay is receiving, sending or about to send, and
\* once every relay has returned it is closed.
C33_MergeClosesAfterRelays ==
  /\ [](/\ wg = Cardinality(RelaysRunning)
        /\ MergeClosed <=> procs[The("Closer")].pc = "done"
        /\ MergeClosed => RelaysRunning = {})
  /\ [][MergeClosed => MergeClosed']_vars
  /\ (RelaysRunning = {}) ~> MergeClosed

\* After cancellation every relay has returned and the output is closed
\* with part of the two inputs delivered.
C33_Witness ==
  /\ stage = "Merge"
  /\ fired["ctx"]
  /\ MergeClosed
  /\ RelaysRunning = {}
  /\ Len(input) = 2 /\ Len(input[1]) = 2 /\ Len(input[2]) = 2
  /\ Len(Got(OutOf("Closer"))) = 1

====
